---- MODULE Spec2Model ----
(***************************************************************************)
(* A model of sonix_burn.exe.c: the Extension-Unit SPI read transport      *)
(* (snx_xu_set, snx_xu_get, snx_sf_read), the device session (snx_open,    *)
(* snx_close), the dump operation (snx_dump_firmware) and main.            *)
(*                                                                         *)
(* Five specifications share the variables and the actions:                *)
(*   Spec        a client calls snx_sf_read or snx_dump_firmware on an     *)
(*               open session with an address and a length of its choice;  *)
(*   SpecFair    Spec with every control transfer returning;               *)
(*   SpecSession a client makes any sequence of snx_open / snx_close calls *)
(*               on one snx_device;                                        *)
(*   SpecMain    the command line: main(argc, argv);                       *)
(*   SpecConc    two snx_sf_read calls interleaved on one session.         *)
(***************************************************************************)
EXTENDS Integers, Sequences, FiniteSets, TLC

(* ------------------------------------------------------------------ *)
(* Program constants                                                   *)
(* ------------------------------------------------------------------ *)
XU_CMD_SPI_READ_SET == 35
XU_CMD_SPI_READ_GET == 36
\* remaining > 1023 ? 1023 : remaining
ChunkMax == 1023
\* sizeof(payload), unsigned char payload[5]
PayloadLen == 5
\* unsigned char: (x) & 0xFF
ByteMod == 256
\* unsigned short wValue, wIndex
UShortMod == 65536
\* the address field of the payload is three bytes wide
AddrFieldMod == 16777216
\* main: snx_dump_firmware(&dev, 0, 0x20000, ...)
DumpLength == 131072
\* main: unsigned char buf[256]
ReadLength == 256
\* main: snx_open(&dev, 0x0C45, 0x6366, 0, 3)
MainVcIf == 0
MainXuId == 3
\* the Set request: bmRequestType 0x21, bRequest 0x01
SetRequestType == 33
SetRequest == 1
\* the Get request: bmRequestType 0xA1, bRequest 0x81
GetRequestType == 161
GetRequest == 129

(* ------------------------------------------------------------------ *)
(* Bounds of the model                                                 *)
(* ------------------------------------------------------------------ *)
\* lengths k*ChunkMax + d, k in 0..MaxChunks, |d| <= MaxDelta
MaxChunks == 2
MaxDelta == 1
\* API calls the client of SpecSession makes
MaxCalls == 4
\* argc ranges over 1..MaxArgc
MaxArgc == 3

NULL == 0

\* libusb_control_transfer's negative results: LIBUSB_ERROR_IO, LIBUSB_ERROR_TIMEOUT
UsbErrors == {-1, -7}

\* The start addresses a client passes: 24-bit values, some of them close
\* enough to the top of the 24-bit range for a read to run past it.  addr is
\* an unsigned int: with these starts and Lengths, addr += chunk stays far
\* below 2^32 and never wraps, so the sum is modelled as the plain sum.
Addrs == {0, 4096, AddrFieldMod - ChunkMax - 1, AddrFieldMod - 1}

\* The lengths a client passes.
Lengths ==
    { n \in { k * ChunkMax + d : k \in 0..MaxChunks, d \in (0 - MaxDelta)..MaxDelta } : n >= 0 }
        \cup {ReadLength, 2500}

\* (vc_interface, xu_id) of the sessions a client opens
Units == { <<MainVcIf, MainXuId>>, <<255, 255>> }

Callers == {1, 2}

(* ------------------------------------------------------------------ *)
(* C arithmetic                                                        *)
(* ------------------------------------------------------------------ *)
RECURSIVE BitOr(_, _)
\* a | b on non-negative integers
BitOr(a, b) ==
    IF a = 0 THEN b
    ELSE IF b = 0 THEN a
    ELSE (IF (a % 2 = 1) \/ (b % 2 = 1) THEN 1 ELSE 0) + 2 * BitOr(a \div 2, b \div 2)

\* unsigned short wValue = (cs << 8)
WValue(cs) == (cs * ByteMod) % UShortMod

\* the two bytes of wIndex the other way round
WIndexSwapped(xu_id, vc_if) == BitOr(vc_if * ByteMod, xu_id) % UShortMod

\* unsigned short wIndex = (xu_id << 8) | vc_if
WIndex(xu_id, vc_if) == BitOr(xu_id * ByteMod, vc_if) % UShortMod

\* a slip in the ceiling: chunks of up to 1024 bytes
ChunkOfOffByOne(remaining) == IF remaining > ChunkMax + 1 THEN ChunkMax + 1 ELSE remaining

\* the ceiling applied as a mask: remaining & 0x3FF
ChunkOfMasked(remaining) == remaining % (ChunkMax + 1)

\* unsigned short chunk = remaining > 1023 ? 1023 : remaining
ChunkOf(remaining) == IF remaining > ChunkMax THEN ChunkMax ELSE remaining

\* a slip in the byte order: the address sent low byte first
PayloadLittleEndian(addr, chunk) ==
    << addr % ByteMod,
       (addr \div 256) % ByteMod,
       (addr \div 65536) % ByteMod,
       (chunk \div 256) % ByteMod,
       chunk % ByteMod >>

\* unsigned char payload[5] = { addr>>16, addr>>8, addr, chunk>>8, chunk } each & 0xFF
Payload(addr, chunk) ==
    << (addr \div 65536) % ByteMod,
       (addr \div 256) % ByteMod,
       addr % ByteMod,
       (chunk \div 256) % ByteMod,
       chunk % ByteMod >>

\* What the device reads out of a 5-byte SET payload: a 3-byte big-endian
\* address and a 2-byte big-endian length.
DecodeAddr(pl) == pl[1] * 65536 + pl[2] * 256 + pl[3]
DecodeLen(pl) == pl[4] * 256 + pl[5]

(* ------------------------------------------------------------------ *)
(* State                                                               *)
(* ------------------------------------------------------------------ *)
VARIABLES
    dev,        \* the snx_device: ctx, handle, vc_interface, xu_id
    usb,        \* the USB library: live contexts, open handles, claimed interfaces
    libcalls,   \* the lifecycle calls made to the USB library, in order
    xfers,      \* the control transfers issued, in order, each with its result
    staged,     \* the read window the device holds staged (it holds at most one)
    rd,         \* the frame of snx_sf_read, per caller
    dmp,        \* the frame of snx_dump_firmware
    file,       \* the destination file of a dump
    mainf,      \* the frame of main
    client      \* the client of the API: the calls it made and what they returned

vars == <<dev, usb, libcalls, xfers, staged, rd, dmp, file, mainf, client>>

\* memset(dev, 0, sizeof(*dev))
ZeroDev == [ctx |-> NULL, handle |-> NULL, vc_interface |-> 0, xu_id |-> 0]

IdleRead ==
    [pc |-> "idle", start |-> 0, addr |-> 0, length |-> 0, remaining |-> 0,
     p |-> 0, chunk |-> 0, r |-> 0, ret |-> 0]

\* entry of snx_sf_read: remaining = length, p = out
SfReadEntry(addr, length) ==
    [pc |-> "loop", start |-> addr, addr |-> addr, length |-> length,
     remaining |-> length, p |-> 0, chunk |-> 0, r |-> 0, ret |-> 0]

IdleDump == [pc |-> "idle", addr |-> 0, length |-> 0, r |-> 0]

\* entry of snx_dump_firmware
DumpEntry(addr, length) == [pc |-> "malloc", addr |-> addr, length |-> length, r |-> 0]

IdleMain == [pc |-> "idle", argc |-> 0, arg |-> "", status |-> -1]

NoFile == [opens |-> 0, size |-> -1]

NoWindow == [valid |-> FALSE, addr |-> 0, len |-> 0, by |-> 0]

\* ops: the API calls made so far; ret: what the last one returned; pre: the
\* snx_device the last one was handed; crashed: the process has died
IdleClient == [ops |-> <<>>, ret |-> 0, pre |-> ZeroDev, crashed |-> FALSE]

(* ------------------------------------------------------------------ *)
(* The control-transfer primitive                                      *)
(* ------------------------------------------------------------------ *)
\* snx_xu_set: the request handed to libusb_control_transfer
SnxXuSet(handle, vc_if, xu_id, cs, payload, len) ==
    [kind |-> "set", handle |-> handle,
     bmRequestType |-> SetRequestType, bRequest |-> SetRequest,
     wValue |-> WValue(cs), wIndex |-> WIndex(xu_id, vc_if),
     payload |-> payload, wLength |-> len]

\* snx_xu_get: the request handed to libusb_control_transfer
SnxXuGet(handle, vc_if, xu_id, cs, len) ==
    [kind |-> "get", handle |-> handle,
     bmRequestType |-> GetRequestType, bRequest |-> GetRequest,
     wValue |-> WValue(cs), wIndex |-> WIndex(xu_id, vc_if),
     payload |-> <<>>, wLength |-> len]

\* What libusb_control_transfer can return for a request of len bytes: the
\* number of bytes transferred (all of them, or fewer) or a negative error.
ShortCounts(len) == { n \in {0, len - 1} : n >= 0 /\ n < len }
\* a Get: the device may answer with fewer bytes than asked for
GetResults(len) == {len} \cup ShortCounts(len) \cup UsbErrors
\* a Set: its 5-byte payload is a single packet of the data stage, which is
\* transferred whole or not at all
SetResults(len) == {len} \cup UsbErrors

(* ------------------------------------------------------------------ *)
(* snx_sf_read                                                         *)
(* ------------------------------------------------------------------ *)
\* the result of the Set left unchecked
SetFailedNever(r) == FALSE

\* if (r < 0) return r;
SetFailed(r) == r < 0

\* the short count left unchecked
GetFailedNoShort(r, chunk) == r < 0

\* a Get one byte short accepted
GetFailedOffByOne(r, chunk) == r < 0 \/ r < chunk - 1

\* only an empty answer taken for a short one
GetFailedOnlyEmpty(r, chunk) == r < 0 \/ (r = 0 /\ chunk # 0)

\* if (r < 0 || r != chunk)
GetFailed(r, chunk) == r < 0 \/ r # chunk

\* every failure of the Get reported as -1
GetErrorFlat(r) == -1

\* return r < 0 ? r : -1;
GetError(r) == IF r < 0 THEN r ELSE -1

\* while (remaining) is false: return 0
ReadReturn(c) ==
    /\ rd[c].pc = "loop"
    /\ rd[c].remaining = 0
    /\ rd' = [rd EXCEPT ![c].pc = "done", ![c].ret = 0]
    /\ UNCHANGED <<dev, usb, libcalls, xfers, staged, dmp, file, mainf, client>>

\* One pass of the loop up to the Set: chunk, payload, snx_xu_set, if (r < 0) return r
ReadSet(c) ==
    /\ rd[c].pc = "loop"
    /\ rd[c].remaining # 0
    /\ LET chunk == ChunkOf(rd[c].remaining)
           payload == Payload(rd[c].addr, chunk)
           req == SnxXuSet(dev.handle, dev.vc_interface, dev.xu_id,
                           XU_CMD_SPI_READ_SET, payload, PayloadLen)
       IN \E r \in SetResults(PayloadLen) :
            /\ xfers' = Append(xfers,
                   [req |-> req, ret |-> r, by |-> c, addr |-> rd[c].addr,
                    chunk |-> chunk, dst |-> rd[c].p,
                    src |-> NoWindow])
            \* the device stages the window of a payload it received whole
            /\ staged' = IF r = PayloadLen
                         THEN [valid |-> TRUE, addr |-> DecodeAddr(payload),
                               len |-> DecodeLen(payload), by |-> c]
                         ELSE staged
            /\ rd' = IF SetFailed(r)
                     THEN [rd EXCEPT ![c].chunk = chunk, ![c].r = r,
                                     ![c].ret = r, ![c].pc = "done"]
                     ELSE [rd EXCEPT ![c].chunk = chunk, ![c].r = r, ![c].pc = "get"]
    /\ UNCHANGED <<dev, usb, libcalls, dmp, file, mainf, client>>

\* The rest of the pass: snx_xu_get into p, the check of its result, and the
\* advance of addr, p and remaining
ReadGet(c) ==
    /\ rd[c].pc = "get"
    /\ LET chunk == rd[c].chunk
           req == SnxXuGet(dev.handle, dev.vc_interface, dev.xu_id,
                           XU_CMD_SPI_READ_GET, chunk)
       IN \E r \in GetResults(chunk) :
            /\ xfers' = Append(xfers,
                   [req |-> req, ret |-> r, by |-> c, addr |-> rd[c].addr,
                    chunk |-> chunk, dst |-> rd[c].p,
                    src |-> staged])
            /\ rd' = IF GetFailed(r, chunk)
                     THEN [rd EXCEPT ![c].r = r, ![c].ret = GetError(r), ![c].pc = "done"]
                     ELSE [rd EXCEPT ![c].r = r,
                                     ![c].addr = rd[c].addr + chunk,
                                     ![c].p = rd[c].p + chunk,
                                     ![c].remaining = rd[c].remaining - chunk,
                                     ![c].pc = "loop"]
    /\ UNCHANGED <<dev, usb, libcalls, staged, dmp, file, mainf, client>>

(* ------------------------------------------------------------------ *)
(* snx_dump_firmware                                                   *)
(* ------------------------------------------------------------------ *)
\* what fwrite(buf, 1, length, f) followed by fclose can leave in the file
WrittenCounts(length) == {length} \cup ShortCounts(length)

\* buf = malloc(length); if (!buf) return -1; then the call of snx_sf_read
DumpMalloc ==
    /\ dmp.pc = "malloc"
    /\ \E ok \in BOOLEAN :
         IF ok
         THEN /\ dmp' = [dmp EXCEPT !.pc = "reading"]
              /\ rd' = [rd EXCEPT ![1] = SfReadEntry(dmp.addr, dmp.length)]
         ELSE /\ dmp' = [dmp EXCEPT !.pc = "done", !.r = -1]
              /\ rd' = rd
    /\ UNCHANGED <<dev, usb, libcalls, xfers, staged, file, mainf, client>>

\* the file written whatever snx_sf_read returned
DumpPersistAlways ==
    /\ dmp.pc = "reading"
    /\ rd[1].pc = "done"
    /\ \E opened \in BOOLEAN :
         IF opened
         THEN \E n \in WrittenCounts(dmp.length) :
                /\ file' = [opens |-> file.opens + 1, size |-> n]
                /\ dmp' = [dmp EXCEPT !.pc = "done", !.r = rd[1].ret]
         ELSE /\ file' = file
              /\ dmp' = [dmp EXCEPT !.pc = "done", !.r = -1]
    /\ UNCHANGED <<dev, usb, libcalls, xfers, staged, rd, mainf, client>>

\* r = snx_sf_read(...) has returned: if (r == 0) fopen, fwrite, fclose, else
\* r = -1 when fopen fails; free(buf); return r
DumpPersist ==
    /\ dmp.pc = "reading"
    /\ rd[1].pc = "done"
    /\ LET r == rd[1].ret
       IN IF r = 0
          THEN \E opened \in BOOLEAN :
                 IF opened
                 THEN \E n \in WrittenCounts(dmp.length) :
                        /\ file' = [opens |-> file.opens + 1, size |-> n]
                        /\ dmp' = [dmp EXCEPT !.pc = "done", !.r = r]
                 ELSE /\ file' = file
                      /\ dmp' = [dmp EXCEPT !.pc = "done", !.r = -1]
          ELSE /\ file' = file
               /\ dmp' = [dmp EXCEPT !.pc = "done", !.r = r]
    /\ UNCHANGED <<dev, usb, libcalls, xfers, staged, rd, mainf, client>>

(* ------------------------------------------------------------------ *)
(* Spec: snx_sf_read or snx_dump_firmware called on an open session    *)
(* ------------------------------------------------------------------ *)
\* the session snx_open leaves behind when it returns 0
OpenSession(vc_if, xu_id) ==
    [ctx |-> 1, handle |-> 1, vc_interface |-> vc_if, xu_id |-> xu_id]

Init ==
    /\ \E u \in Units : dev = OpenSession(u[1], u[2])
    /\ \E claimedOk \in BOOLEAN :
         usb = [ctxs |-> {1}, handles |-> {1}, claimed |-> IF claimedOk THEN {1} ELSE {}]
    /\ libcalls = <<>>
    /\ xfers = <<>>
    /\ staged = NoWindow
    /\ file = NoFile
    /\ mainf = IdleMain
    /\ \E op \in {"read", "dump"}, a \in Addrs, n \in Lengths :
         /\ client = [IdleClient EXCEPT !.ops = <<op>>, !.pre = dev]
         /\ rd = [c \in Callers |-> IF c = 1 /\ op = "read" THEN SfReadEntry(a, n) ELSE IdleRead]
         /\ dmp = IF op = "dump" THEN DumpEntry(a, n) ELSE IdleDump

Next ==
    \/ ReadReturn(1)
    \/ ReadSet(1)
    \/ ReadGet(1)
    \/ DumpMalloc
    \/ DumpPersist

Spec == Init /\ [][Next]_vars

(* ------------------------------------------------------------------ *)
(* Reading the log of control transfers                                *)
(* ------------------------------------------------------------------ *)
IsSet(x) == x.req.kind = "set"
IsGet(x) == x.req.kind = "get"

\* the Sets and the Gets caller c issued, in order
SetsOf(c) == SelectSeq(xfers, LAMBDA x : x.by = c /\ IsSet(x))
GetsOf(c) == SelectSeq(xfers, LAMBDA x : x.by = c /\ IsGet(x))

\* a transfer that did not move all the bytes asked for
TransferFailed(x) == x.ret < 0 \/ x.ret # x.req.wLength

\* what snx_sf_read treats as a failure: a negative Set or Get, or a short Get
ReadFailure(x) == x.ret < 0 \/ (IsGet(x) /\ x.ret < x.req.wLength)

NeverFailed(c) == \A i \in 1..Len(xfers) : xfers[i].by = c => ~TransferFailed(xfers[i])
HasFailed(c) == \E i \in 1..Len(xfers) : xfers[i].by = c /\ ReadFailure(xfers[i])

RECURSIVE BytesReceived(_, _)
\* the bytes the Gets of caller c among the first n transfers returned
BytesReceived(c, n) ==
    IF n = 0 THEN 0
    ELSE BytesReceived(c, n - 1)
         + (IF xfers[n].by = c /\ IsGet(xfers[n]) /\ xfers[n].ret > 0 THEN xfers[n].ret ELSE 0)

RECURSIVE SumChunks(_)
SumChunks(s) == IF s = <<>> THEN 0 ELSE Head(s).chunk + SumChunks(Tail(s))

CeilDiv(n, d) == (n + d - 1) \div d

\* the (address, chunk) windows of the Sets of caller c
Plan(c) == [i \in 1..Len(SetsOf(c)) |-> <<SetsOf(c)[i].addr, SetsOf(c)[i].chunk>>]

\* the windows are contiguous from the start address, strictly increasing,
\* each fetched by a Get of the same size, and sum to the length
PlanCovers(c) ==
    LET S == SetsOf(c)
        G == GetsOf(c)
    IN /\ Len(G) = Len(S)
       /\ \A i \in 1..Len(S) :
            /\ S[i].chunk >= 1
            /\ S[i].chunk <= ChunkMax
            /\ G[i].req.wLength = S[i].chunk
            /\ G[i].addr = S[i].addr
            /\ S[i].addr = IF i = 1 THEN rd[c].start ELSE S[i - 1].addr + S[i - 1].chunk
            /\ i > 1 => S[i].addr > S[i - 1].addr
       /\ SumChunks(S) = rd[c].length

ReadDone(c) == rd[c].pc = "done"

(* ------------------------------------------------------------------ *)
(* C1                                                                  *)
(* ------------------------------------------------------------------ *)
\* C1 as stated: a read on a device that never fails issues exactly one
\* Set/Get pair when length <= 1023 and ceil(length/1023) pairs when
\* length > 1023, over contiguous, strictly increasing windows that sum to
\* length.
C1_PlanAsStated ==
    (ReadDone(1) /\ NeverFailed(1)) =>
        /\ Len(SetsOf(1)) = IF rd[1].length <= ChunkMax THEN 1
                            ELSE CeilDiv(rd[1].length, ChunkMax)
        /\ PlanCovers(1)

\* C1 (amended): a read on a device that never fails issues exactly
\* ceil(length/1023) Set/Get pairs: none when length is 0, one when
\* 1 <= length <= 1023; the windows of successive pairs start at the start
\* address, are contiguous, strictly increasing in address and their chunk
\* sizes sum to length; Read(0, 2500) yields [(0,1023), (1023,1023), (2046,454)].
C1_ChunkPlan ==
    (ReadDone(1) /\ NeverFailed(1)) =>
        /\ Len(SetsOf(1)) = CeilDiv(rd[1].length, ChunkMax)
        /\ (rd[1].length >= 1 /\ rd[1].length <= ChunkMax) => Len(SetsOf(1)) = 1
        /\ PlanCovers(1)
        /\ (rd[1].start = 0 /\ rd[1].length = 2500) =>
              Plan(1) = << <<0, 1023>>, <<1023, 1023>>, <<2046, 454>> >>

\* a read of 2500 bytes has completed in three pairs on a device that never failed
C1_Witness ==
    /\ ReadDone(1) /\ NeverFailed(1)
    /\ rd[1].length = 2500
    /\ Len(SetsOf(1)) = 3 /\ Len(GetsOf(1)) = 3

(* ------------------------------------------------------------------ *)
(* C2                                                                  *)
(* ------------------------------------------------------------------ *)
\* the length field of every Set is the size of the Get that follows it, at most 1023
LengthFieldOk ==
    \A i \in 1..Len(xfers) :
        IsSet(xfers[i]) =>
            /\ DecodeLen(xfers[i].req.payload) <= ChunkMax
            /\ i < Len(xfers) =>
                 /\ IsGet(xfers[i + 1])
                 /\ xfers[i + 1].req.wLength = DecodeLen(xfers[i].req.payload)

\* C2 as stated: in every Set the address field decodes to start address +
\* bytes already read, and the length field to the size of the following
\* Get, at most 1023.
C2_PayloadAsStated ==
    /\ LengthFieldOk
    /\ \A i \in 1..Len(xfers) :
         IsSet(xfers[i]) =>
            DecodeAddr(xfers[i].req.payload)
                = rd[xfers[i].by].start + BytesReceived(xfers[i].by, i)

\* C2 (amended): in every Set the 3-byte address field decodes to (start
\* address + bytes already read) modulo 2^24, which is start address + bytes
\* already read as long as that sum is below 2^24; the length field decodes
\* to the size of the following Get, at most 1023.
C2_Payload ==
    /\ LengthFieldOk
    /\ \A i \in 1..Len(xfers) :
         IsSet(xfers[i]) =>
            LET sum == rd[xfers[i].by].start + BytesReceived(xfers[i].by, i)
            IN /\ DecodeAddr(xfers[i].req.payload) = sum % AddrFieldMod
               /\ sum < AddrFieldMod => DecodeAddr(xfers[i].req.payload) = sum

\* a Set of a later chunk was issued, followed by its Get, both below and
\* past the top of the 24-bit range
C2_Witness ==
    /\ Len(xfers) >= 4
    /\ IsSet(xfers[3]) /\ IsGet(xfers[4])
    /\ BytesReceived(1, 3) = ChunkMax
    /\ rd[1].start + BytesReceived(1, 3) >= AddrFieldMod

(* ------------------------------------------------------------------ *)
(* C3                                                                  *)
(* ------------------------------------------------------------------ *)
\* C3: the transfers of one snx_sf_read alternate Set(0x23), Get(0x24), ...:
\* every Get comes right after the Set of the same window, and every Set but
\* the first comes right after a Get that returned its full chunk.
C3_Alternation ==
    \A i \in 1..Len(xfers) :
        LET x == xfers[i]
        IN IF i % 2 = 1
           THEN /\ IsSet(x)
                /\ x.req.wValue = XU_CMD_SPI_READ_SET * 256
                /\ i > 1 => /\ IsGet(xfers[i - 1])
                            /\ xfers[i - 1].ret = xfers[i - 1].req.wLength
           ELSE /\ IsGet(x)
                /\ x.req.wValue = XU_CMD_SPI_READ_GET * 256
                /\ IsSet(xfers[i - 1])
                /\ xfers[i - 1].ret >= 0
                /\ xfers[i - 1].addr = x.addr
                /\ DecodeLen(xfers[i - 1].req.payload) = x.req.wLength
                /\ xfers[i - 1].ret = PayloadLen =>
                      /\ x.src.valid
                      /\ x.src.addr = DecodeAddr(xfers[i - 1].req.payload)
                      /\ x.src.len = x.req.wLength

\* two chunks have gone through: Set, Get, Set, Get
C3_Witness ==
    /\ Len(xfers) >= 4
    /\ IsGet(xfers[4]) /\ xfers[4].ret = xfers[4].req.wLength

(* ------------------------------------------------------------------ *)
(* C4                                                                  *)
(* ------------------------------------------------------------------ *)
\* C4: once a Set or Get has returned a negative value, or a Get fewer bytes
\* than its chunk, snx_sf_read has returned non-zero and no further control
\* transfer is ever issued.
C4_AbortOnFailure ==
    /\ [](HasFailed(1) => (ReadDone(1) /\ rd[1].ret # 0))
    /\ [][HasFailed(1) => xfers' = xfers]_vars

\* a read has failed in its second chunk and returned
C4_Witness ==
    /\ HasFailed(1) /\ ReadDone(1)
    /\ Len(xfers) >= 3
    /\ ReadFailure(xfers[Len(xfers)])

(* ------------------------------------------------------------------ *)
(* C5                                                                  *)
(* ------------------------------------------------------------------ *)
\* C5: the negative status of a failing Set or Get is the value snx_sf_read
\* returns and the value snx_dump_firmware returns; a short Get makes
\* snx_sf_read return a negative value.
C5_StatusPropagated ==
    LET last == xfers[Len(xfers)]
    IN /\ (ReadDone(1) /\ HasFailed(1)) =>
            /\ last.ret < 0 => rd[1].ret = last.ret
            /\ last.ret >= 0 => rd[1].ret < 0
       /\ (dmp.pc = "done" /\ ReadDone(1) /\ HasFailed(1)) => dmp.r = rd[1].ret

\* a dump has returned the timeout status of a Get of its second chunk
C5_Witness ==
    /\ dmp.pc = "done" /\ dmp.r = -7
    /\ Len(xfers) = 4 /\ xfers[4].ret = -7

(* ------------------------------------------------------------------ *)
(* C6                                                                  *)
(* ------------------------------------------------------------------ *)
\* C6: snx_sf_read returns 0 only when every Get returned exactly its chunk
\* and the bytes received over all chunks add up to length.
C6_SuccessMeansAll ==
    (ReadDone(1) /\ rd[1].ret = 0) =>
        /\ \A i \in 1..Len(xfers) : IsGet(xfers[i]) => xfers[i].ret = xfers[i].req.wLength
        /\ BytesReceived(1, Len(xfers)) = rd[1].length
        /\ rd[1].p = rd[1].length

\* a read of more than one chunk has returned 0
C6_Witness ==
    /\ ReadDone(1) /\ rd[1].ret = 0
    /\ rd[1].length > ChunkMax
    /\ BytesReceived(1, Len(xfers)) = rd[1].length

(* ------------------------------------------------------------------ *)
(* snx_open and snx_close                                              *)
(* ------------------------------------------------------------------ *)
\* the identifier of the next object a successful call of fn creates
NewId(log, fn) == 1 + Cardinality({ i \in DOMAIN log : log[i].fn = fn /\ log[i].ok })

LibCall(fn, arg, ok) == [fn |-> fn, arg |-> arg, ok |-> ok]

\* the lookup failed and the context is left open
OpenLookupFailedNoExit(d, u, log) ==
    [dev |-> d, usb |-> u, libcalls |-> log, ret |-> -1]

\* if (!dev->handle) { libusb_exit(dev->ctx); return -1; }
\* dev->ctx keeps the pointer to the context that was torn down.
OpenLookupFailed(d, u, log) ==
    [dev |-> d,
     usb |-> [u EXCEPT !.ctxs = u.ctxs \ {d.ctx}],
     libcalls |-> Append(log, LibCall("libusb_exit", d.ctx, TRUE)),
     ret |-> -1]

\* snx_open(dev, vid, pid, vc_if, xu_id), with the outcomes of libusb_init,
\* libusb_open_device_with_vid_pid and libusb_claim_interface
SnxOpen(u, log, vc_if, xu_id, initOk, openOk, claimOk) ==
    LET c == NewId(log, "libusb_init")
        h == NewId(log, "libusb_open_device_with_vid_pid")
        log1 == Append(log, LibCall("libusb_init", IF initOk THEN c ELSE NULL, initOk))
        log2 == Append(log1, LibCall("libusb_open_device_with_vid_pid",
                                     IF openOk THEN h ELSE NULL, openOk))
        u1 == [u EXCEPT !.ctxs = u.ctxs \cup {c}]
        d1 == [ZeroDev EXCEPT !.ctx = c]
    IN IF ~initOk
       THEN [dev |-> ZeroDev, usb |-> u, libcalls |-> log1, ret |-> -1]
       ELSE IF ~openOk
       THEN OpenLookupFailed(d1, u1, log2)
       ELSE [dev |-> [ctx |-> c, handle |-> h, vc_interface |-> vc_if, xu_id |-> xu_id],
             usb |-> [u1 EXCEPT !.handles = u1.handles \cup {h},
                                !.claimed = IF claimOk THEN u1.claimed \cup {h}
                                            ELSE u1.claimed],
             libcalls |-> Append(log2, LibCall("libusb_claim_interface", h, claimOk)),
             ret |-> 0]

\* if (dev->handle) { libusb_release_interface(...); libusb_close(dev->handle); }
CloseHandle(d, u, log) ==
    IF d.handle # NULL
    THEN [usb |-> [u EXCEPT !.handles = u.handles \ {d.handle},
                            !.claimed = u.claimed \ {d.handle}],
          libcalls |-> log \o << LibCall("libusb_release_interface", d.handle,
                                         d.handle \in u.claimed),
                                 LibCall("libusb_close", d.handle, TRUE) >>]
    ELSE [usb |-> u, libcalls |-> log]

\* the context torn down whether or not there is one
CloseCtxUnguarded(d, u, log) ==
    [usb |-> [u EXCEPT !.ctxs = u.ctxs \ {d.ctx}],
     libcalls |-> Append(log, LibCall("libusb_exit", d.ctx, d.ctx \in u.ctxs))]

\* if (dev->ctx) libusb_exit(dev->ctx);
\* ok is FALSE when the context was torn down before: a use after free.
CloseCtx(d, u, log) ==
    IF d.ctx # NULL
    THEN [usb |-> [u EXCEPT !.ctxs = u.ctxs \ {d.ctx}],
          libcalls |-> Append(log, LibCall("libusb_exit", d.ctx, d.ctx \in u.ctxs))]
    ELSE [usb |-> u, libcalls |-> log]

\* libusb_exit on a context already torn down is undefined: the call may
\* return, or the process may die in it
ExitIsUndefined(d, u) == d.ctx # NULL /\ d.ctx \notin u.ctxs
CloseOutcomes(d, u) == IF ExitIsUndefined(d, u) THEN {"returns", "dies"} ELSE {"returns"}

\* snx_close(dev); outcome is what an undefined libusb_exit does
SnxClose(d, u, log, outcome) ==
    LET a == CloseHandle(d, u, log)
        b == CloseCtx(d, a.usb, a.libcalls)
    IN [dev |-> IF outcome = "dies" THEN d ELSE ZeroDev,
        usb |-> b.usb, libcalls |-> b.libcalls,
        crashed |-> outcome = "dies"]

(* ------------------------------------------------------------------ *)
(* SpecSession: any sequence of snx_open and snx_close on one device   *)
(* ------------------------------------------------------------------ *)
ClientMayCall == Len(client.ops) < MaxCalls /\ ~client.crashed

ClientOpen ==
    /\ ClientMayCall
    /\ \E un \in Units, initOk \in BOOLEAN, openOk \in BOOLEAN, claimOk \in BOOLEAN :
         \* the outcome of a call that is not reached is not a choice
         /\ ~initOk => ~openOk
         /\ ~openOk => ~claimOk
         /\ LET res == SnxOpen(usb, libcalls, un[1], un[2], initOk, openOk, claimOk)
            IN /\ dev' = res.dev
               /\ usb' = res.usb
               /\ libcalls' = res.libcalls
               /\ client' = [client EXCEPT !.ops = Append(client.ops, "open"),
                                           !.ret = res.ret, !.pre = dev]
    /\ UNCHANGED <<xfers, staged, rd, dmp, file, mainf>>

ClientClose ==
    /\ ClientMayCall
    /\ \E outcome \in CloseOutcomes(dev, usb) :
         LET res == SnxClose(dev, usb, libcalls, outcome)
         IN /\ dev' = res.dev
            /\ usb' = res.usb
            /\ libcalls' = res.libcalls
            /\ client' = [client EXCEPT !.ops = Append(client.ops, "close"),
                                        !.ret = 0, !.pre = dev,
                                        !.crashed = res.crashed]
    /\ UNCHANGED <<xfers, staged, rd, dmp, file, mainf>>

\* snx_device dev = {0}: a zeroed, never-opened session
InitSession ==
    /\ dev = ZeroDev
    /\ usb = [ctxs |-> {}, handles |-> {}, claimed |-> {}]
    /\ libcalls = <<>>
    /\ xfers = <<>>
    /\ staged = NoWindow
    /\ rd = [c \in Callers |-> IdleRead]
    /\ dmp = IdleDump
    /\ file = NoFile
    /\ mainf = IdleMain
    /\ client = IdleClient

NextSession == ClientOpen \/ ClientClose

SpecSession == InitSession /\ [][NextSession]_vars

(* ------------------------------------------------------------------ *)
(* SpecMain: main(argc, argv)                                          *)
(* ------------------------------------------------------------------ *)
\* argv[1] when there is one
Args == {"dump", "read", "erase"}

\* if (argc != 2) { usage; return 1; }
MainStart ==
    /\ mainf.pc = "start"
    /\ mainf' = IF mainf.argc # 2
                THEN [mainf EXCEPT !.pc = "exit", !.status = 1]
                ELSE [mainf EXCEPT !.pc = "open"]
    /\ UNCHANGED <<dev, usb, libcalls, xfers, staged, rd, dmp, file, client>>

\* if (snx_open(&dev, 0x0C45, 0x6366, 0, 3) != 0) { ...; return 1; }
MainOpen ==
    /\ mainf.pc = "open"
    /\ \E initOk \in BOOLEAN, openOk \in BOOLEAN, claimOk \in BOOLEAN :
         /\ ~initOk => ~openOk
         /\ ~openOk => ~claimOk
         /\ LET res == SnxOpen(usb, libcalls, MainVcIf, MainXuId, initOk, openOk, claimOk)
            IN /\ dev' = res.dev
               /\ usb' = res.usb
               /\ libcalls' = res.libcalls
               /\ client' = [client EXCEPT !.ops = Append(client.ops, "open"),
                                           !.ret = res.ret, !.pre = dev]
               /\ mainf' = IF res.ret # 0
                           THEN [mainf EXCEPT !.pc = "exit", !.status = 1]
                           ELSE [mainf EXCEPT !.pc = "dispatch"]
    /\ UNCHANGED <<xfers, staged, rd, dmp, file>>

\* the strcmp chain on argv[1], up to the call it selects
MainDispatch ==
    /\ mainf.pc = "dispatch"
    /\ IF mainf.arg = "dump"
       THEN /\ dmp' = DumpEntry(0, DumpLength)
            /\ rd' = rd
            /\ mainf' = [mainf EXCEPT !.pc = "dumping"]
       ELSE IF mainf.arg = "read"
       THEN /\ rd' = [rd EXCEPT ![1] = SfReadEntry(0, ReadLength)]
            /\ dmp' = dmp
            /\ mainf' = [mainf EXCEPT !.pc = "reading"]
       ELSE /\ rd' = rd
            /\ dmp' = dmp
            /\ mainf' = [mainf EXCEPT !.pc = "close"]
    /\ UNCHANGED <<dev, usb, libcalls, xfers, staged, file, client>>

\* a failed dump leaving main at once with status 1
MainAfterDumpExits ==
    /\ mainf.pc = "dumping"
    /\ dmp.pc = "done"
    /\ mainf' = IF dmp.r # 0
                THEN [mainf EXCEPT !.pc = "exit", !.status = 1]
                ELSE [mainf EXCEPT !.pc = "close"]
    /\ client' = [client EXCEPT !.ops = Append(client.ops, "dump"), !.ret = dmp.r]
    /\ UNCHANGED <<dev, usb, libcalls, xfers, staged, rd, dmp, file>>

\* snx_dump_firmware has returned: one message or the other
MainAfterDump ==
    /\ mainf.pc = "dumping"
    /\ dmp.pc = "done"
    /\ mainf' = [mainf EXCEPT !.pc = "close"]
    /\ client' = [client EXCEPT !.ops = Append(client.ops, "dump"), !.ret = dmp.r]
    /\ UNCHANGED <<dev, usb, libcalls, xfers, staged, rd, dmp, file>>

\* snx_sf_read has returned: one message or the other
MainAfterRead ==
    /\ mainf.pc = "reading"
    /\ rd[1].pc = "done"
    /\ mainf' = [mainf EXCEPT !.pc = "close"]
    /\ client' = [client EXCEPT !.ops = Append(client.ops, "read"), !.ret = rd[1].ret]
    /\ UNCHANGED <<dev, usb, libcalls, xfers, staged, rd, dmp, file>>

\* snx_close(&dev); return 0;
MainClose ==
    /\ mainf.pc = "close"
    /\ \E outcome \in CloseOutcomes(dev, usb) :
         LET res == SnxClose(dev, usb, libcalls, outcome)
         IN /\ dev' = res.dev
            /\ usb' = res.usb
            /\ libcalls' = res.libcalls
            /\ client' = [client EXCEPT !.ops = Append(client.ops, "close"),
                                        !.ret = 0, !.pre = dev,
                                        !.crashed = res.crashed]
            /\ mainf' = IF res.crashed
                        THEN [mainf EXCEPT !.pc = "died"]
                        ELSE [mainf EXCEPT !.pc = "exit", !.status = 0]
    /\ UNCHANGED <<xfers, staged, rd, dmp, file>>

InitMain ==
    /\ dev = ZeroDev
    /\ usb = [ctxs |-> {}, handles |-> {}, claimed |-> {}]
    /\ libcalls = <<>>
    /\ xfers = <<>>
    /\ staged = NoWindow
    /\ rd = [c \in Callers |-> IdleRead]
    /\ dmp = IdleDump
    /\ file = NoFile
    /\ client = IdleClient
    /\ \E argc \in 1..MaxArgc :
         \E arg \in (IF argc = 1 THEN {""} ELSE Args) :
            mainf = [pc |-> "start", argc |-> argc, arg |-> arg, status |-> -1]

NextMain ==
    \/ MainStart
    \/ MainOpen
    \/ MainDispatch
    \/ MainAfterDump
    \/ MainAfterRead
    \/ MainClose
    \/ ReadReturn(1)
    \/ ReadSet(1)
    \/ ReadGet(1)
    \/ DumpMalloc
    \/ DumpPersist

SpecMain == InitMain /\ [][NextMain]_vars

(* ------------------------------------------------------------------ *)
(* C7                                                                  *)
(* ------------------------------------------------------------------ *)
SessionClosed == dev.ctx = NULL /\ dev.handle = NULL

SessionOpen ==
    /\ dev.ctx \in usb.ctxs
    /\ dev.handle \in usb.handles
    /\ dev.handle \in usb.claimed

\* C7: after any sequence of snx_open and snx_close calls the session is
\* fully closed (ctx and handle null) or fully open (ctx and handle valid,
\* the interface claimed).
C7_ClosedOrOpen ==
    ~client.crashed => (SessionClosed \/ SessionOpen)

(* ------------------------------------------------------------------ *)
(* C8                                                                  *)
(* ------------------------------------------------------------------ *)
ClosedBy(c, c2) == c2.ops = Append(c.ops, "close")
OpenedBy(c, c2) == c2.ops = Append(c.ops, "open")

\* C8: snx_close on a closed session (never opened, or closed before) makes
\* no call to the USB library, does not fail and leaves the session closed.
C8_CloseIdempotent ==
    [][(ClosedBy(client, client') /\ SessionClosed) =>
          /\ libcalls' = libcalls
          /\ usb' = usb
          /\ dev' = ZeroDev
          /\ ~client'.crashed]_vars

\* an open session closed twice: the last library call is still the
\* libusb_exit of the first snx_close
C8_Witness ==
    /\ client.ops = <<"open", "close", "close">>
    /\ client.pre = ZeroDev
    /\ dev = ZeroDev
    /\ Len(libcalls) = 6
    /\ libcalls[6].fn = "libusb_exit"

(* ------------------------------------------------------------------ *)
(* C9                                                                  *)
(* ------------------------------------------------------------------ *)
\* C9: when snx_open returns failure, everything it acquired in that call
\* has been released: the call leaves no context and no handle live that
\* was not live before, and the session holds no handle.
C9_FailedOpenReleases ==
    [][(OpenedBy(client, client') /\ client'.ret # 0) =>
          /\ usb'.ctxs \subseteq usb.ctxs
          /\ usb'.handles \subseteq usb.handles
          /\ dev'.handle = NULL]_vars

\* snx_open has failed at the device lookup, after libusb_init gave it a context
C9_Witness ==
    /\ client.ops = <<"open">>
    /\ client.ret = -1
    /\ Len(libcalls) = 3
    /\ libcalls[1].fn = "libusb_init" /\ libcalls[1].ok
    /\ libcalls[3] = LibCall("libusb_exit", libcalls[1].arg, TRUE)
    /\ usb.ctxs = {}

(* ------------------------------------------------------------------ *)
(* C10                                                                 *)
(* ------------------------------------------------------------------ *)
UsageError == mainf.argc # 2 \/ mainf.arg \notin {"dump", "read"}

\* C10: an invocation whose argument count is not one, or whose argument is
\* neither dump nor read, performs no USB operation and exits with status 1.
C10_UsageError ==
    UsageError =>
        /\ libcalls = <<>>
        /\ xfers = <<>>
        /\ mainf.pc = "exit" => mainf.status = 1

(* ------------------------------------------------------------------ *)
(* C11                                                                 *)
(* ------------------------------------------------------------------ *)
DumpDone == dmp.pc = "done"

\* the destination file exists and holds n bytes
FileHolds(n) == file.opens > 0 /\ file.size = n

\* C11: when the read inside snx_dump_firmware has succeeded,
\* snx_dump_firmware returns 0 only if the destination holds exactly length
\* bytes; a destination that cannot be opened, or a write that stores fewer
\* bytes, makes it return non-zero.
C11_PersistOrFail ==
    (DumpDone /\ ReadDone(1) /\ rd[1].ret = 0) =>
        (dmp.r = 0 <=> FileHolds(dmp.length))

(* ------------------------------------------------------------------ *)
(* C12                                                                 *)
(* ------------------------------------------------------------------ *)
\* The output buffer as the Gets of caller c wrote it: the Get of a chunk
\* stores its ret bytes at offset dst, and they are the bytes the device
\* holds at the addresses src.addr, src.addr + 1, ... of its staged window.
\* The chunks tile the buffer from offset 0 in issue order.
BufferTiled(c) ==
    LET G == GetsOf(c)
    IN /\ \A i \in 1..Len(G) :
            /\ G[i].ret = G[i].req.wLength
            /\ G[i].dst = IF i = 1 THEN 0 ELSE G[i - 1].dst + G[i - 1].ret
       /\ BytesReceived(c, Len(xfers)) = rd[c].length

\* buffer byte dst + k of every chunk is the byte of flash address a + dst + k
BufferFromFlash(c) ==
    \A i \in 1..Len(GetsOf(c)) :
        LET g == GetsOf(c)[i]
        IN /\ g.src.valid
           /\ g.src.by = c
           /\ g.src.len = g.ret
           /\ g.src.addr = rd[c].start + g.dst

\* C12: after a successful snx_sf_read of length bytes at address a, buffer
\* byte i is the byte delivered for flash address a + i, for every
\* i < length: the buffer is the concatenation of the chunk responses in
\* issue order; and the file snx_dump_firmware produces from it is exactly
\* that concatenation, length bytes long.
C12_BufferAndFile ==
    (ReadDone(1) /\ rd[1].ret = 0) =>
        /\ BufferTiled(1)
        /\ BufferFromFlash(1)
        /\ (DumpDone /\ file.opens > 0) => file.size = rd[1].length

(* ------------------------------------------------------------------ *)
(* C13                                                                 *)
(* ------------------------------------------------------------------ *)
\* the values of an unsigned char
Bytes == 0..(ByteMod - 1)

\* for every 8-bit selector, unit ID and interface number, wValue is the
\* selector in the high byte and wIndex the unit ID over the interface
\* number, both within 16 bits
WireFieldsFit ==
    \A a \in Bytes :
        /\ WValue(a) = a * 256 /\ WValue(a) < 65536
        /\ \A b \in Bytes : WIndex(a, b) = a * 256 + b /\ WIndex(a, b) < 65536

\* snx_open records the interface number and the unit ID it is given
OpenRecordsUnit ==
    \A un \in Units :
        LET d == SnxOpen([ctxs |-> {}, handles |-> {}, claimed |-> {}], <<>>,
                         un[1], un[2], TRUE, TRUE, TRUE).dev
        IN d.vc_interface = un[1] /\ d.xu_id = un[2]

\* C13: every control transfer of snx_sf_read is a Set (0x21, 0x01,
\* wValue 0x23 << 8, 5-byte payload) or a Get (0xA1, 0x81, wValue 0x24 << 8);
\* wIndex is (xu_id << 8) | vc_interface of the session as snx_open recorded
\* it, the same in all transfers, and wValue and wIndex fit in 16 bits.
C13_WireFormat ==
    /\ OpenRecordsUnit
    /\ \A i \in 1..Len(xfers) :
         LET q == xfers[i].req
         IN /\ \/ /\ q.kind = "set"
                  /\ q.bmRequestType = 33 /\ q.bRequest = 1
                  /\ q.wValue = 35 * 256
                  /\ Len(q.payload) = 5 /\ q.wLength = 5
               \/ /\ q.kind = "get"
                  /\ q.bmRequestType = 161 /\ q.bRequest = 129
                  /\ q.wValue = 36 * 256
            /\ q.wIndex = dev.xu_id * 256 + dev.vc_interface
            /\ q.wIndex = xfers[1].req.wIndex
            /\ q.handle = dev.handle
    /\ WireFieldsFit

\* a Set and a Get have gone out on a session with unit ID and interface 255
C13_Witness ==
    /\ Len(xfers) >= 2
    /\ dev.xu_id = 255 /\ dev.vc_interface = 255
    /\ xfers[1].req.wIndex = 65535
    /\ IsGet(xfers[2])

(* ------------------------------------------------------------------ *)
(* C14                                                                 *)
(* ------------------------------------------------------------------ *)
\* main has the result of the command it ran
CommandReturned(cmd) ==
    /\ mainf.arg = cmd
    /\ mainf.pc \in {"close", "exit"}
    /\ \E i \in 1..Len(client.ops) : client.ops[i] = cmd

\* the plan of the dump: 128 chunks of 1023 bytes from address 0, then 128 bytes
DumpPlan ==
    [i \in 1..129 |-> IF i <= 128 THEN <<(i - 1) * 1023, 1023>> ELSE <<130944, 128>>]

RegionEnd(g) == g.dst + g.req.wLength

\* C15: when snx_sf_read fails at the chunk starting at output offset k, no
\* Get was given any byte at offset >= k + (size of the failing chunk), the
\* bytes at offsets < k are those of earlier chunks, each received in full
\* and laid end to end from offset 0, and only the last Get, which is the
\* failing chunk's own, wrote inside [k, k + chunk).
C15_FailureLeavesTail ==
    (ReadDone(1) /\ rd[1].ret # 0) =>
        LET G == GetsOf(1)
            k == rd[1].p
            chunk == rd[1].chunk
            last == xfers[Len(xfers)]
        IN /\ ReadFailure(last)
           /\ last.dst = k /\ last.chunk = chunk
           /\ k + chunk <= rd[1].length
           /\ \A i \in 1..Len(G) :
                /\ RegionEnd(G[i]) <= k + chunk
                /\ G[i].dst = IF i = 1 THEN 0 ELSE RegionEnd(G[i - 1])
                /\ (i < Len(G) \/ IsSet(last)) =>
                      /\ G[i].ret = G[i].req.wLength
                      /\ RegionEnd(G[i]) <= k
                /\ (i = Len(G) /\ IsGet(last)) =>
                      /\ G[i].dst = k
                      /\ G[i].ret < chunk
           /\ BytesReceived(1, Len(xfers) - 1) = k

\* a read has failed on a short Get of its third chunk, two chunks in the buffer
C15_Witness ==
    /\ ReadDone(1) /\ rd[1].ret = -1
    /\ rd[1].p = 2 * ChunkMax
    /\ Len(xfers) = 6
    /\ xfers[6].ret = rd[1].chunk - 1
    /\ rd[1].chunk > 1

(* ------------------------------------------------------------------ *)
(* C16                                                                 *)
(* ------------------------------------------------------------------ *)
\* C16: the destination file is opened, created, truncated or written only
\* after snx_sf_read has returned 0 with the whole range read; when
\* snx_sf_read fails inside snx_dump_firmware the file is never touched.
C16_FileOnlyAfterRead ==
    /\ []((ReadDone(1) /\ rd[1].ret # 0) => file = NoFile)
    /\ [][file' # file =>
            /\ ReadDone(1) /\ rd[1].ret = 0
            /\ BytesReceived(1, Len(xfers)) = dmp.length]_vars

\* a dump has returned the failure of its read, the file untouched
C16_Witness ==
    /\ DumpDone /\ ReadDone(1)
    /\ HasFailed(1) /\ dmp.r # 0
    /\ Len(xfers) >= 3
    /\ file = NoFile

(* ------------------------------------------------------------------ *)
(* SpecConc: two snx_sf_read calls on one session, interleaved at the  *)
(* granularity of the control transfer                                 *)
(* ------------------------------------------------------------------ *)
\* the arguments of the two calls
ConcAddrs == {0, 4096}
ConcLengths == {1, ChunkMax + 1}

InitConc ==
    /\ dev = OpenSession(MainVcIf, MainXuId)
    /\ usb = [ctxs |-> {1}, handles |-> {1}, claimed |-> {1}]
    /\ libcalls = <<>>
    /\ xfers = <<>>
    /\ staged = NoWindow
    /\ file = NoFile
    /\ mainf = IdleMain
    /\ dmp = IdleDump
    /\ client = [IdleClient EXCEPT !.ops = <<"read", "read">>, !.pre = dev]
    /\ \E a1 \in ConcAddrs, a2 \in ConcAddrs, n1 \in ConcLengths, n2 \in ConcLengths :
         rd = [c \in Callers |-> IF c = 1 THEN SfReadEntry(a1, n1) ELSE SfReadEntry(a2, n2)]

NextConc ==
    \E c \in Callers :
        \/ ReadReturn(c)
        \/ ReadSet(c)
        \/ ReadGet(c)

SpecConc == InitConc /\ [][NextConc]_vars

(* ------------------------------------------------------------------ *)
(* C17                                                                 *)
(* ------------------------------------------------------------------ *)
\* the last Set before transfer i that the device received whole
LastStagingSet(i) ==
    LET J == { j \in 1..(i - 1) : IsSet(xfers[j]) /\ xfers[j].ret = PayloadLen }
    IN IF J = {} THEN 0 ELSE CHOOSE j \in J : \A k \in J : k <= j

\* the calls did not overlap: all the transfers of one precede all of the other's
CallsSerialized ==
    \E n \in 0..Len(xfers) :
        \E c \in Callers :
            \A i \in 1..Len(xfers) : (xfers[i].by = c) <=> (i <= n)

\* the Get returned the window its own call staged
OwnWindow(g) ==
    /\ g.src.valid
    /\ g.src.by = g.by
    /\ g.src.addr = g.addr % AddrFieldMod
    /\ g.src.len = g.req.wLength

\* C17: the device holds one staged window, so a Get returns the window of
\* the last Set that reached the device, whoever issued it; when the two
\* calls are serialized, every Get returns the window staged by its own Set.
C17_OneStagedWindow ==
    /\ \A i \in 1..Len(xfers) :
         IsGet(xfers[i]) =>
            LET j == LastStagingSet(i)
            IN /\ j > 0
               /\ xfers[i].src.by = xfers[j].by
               /\ xfers[i].src.addr = DecodeAddr(xfers[j].req.payload)
               /\ xfers[i].src.len = DecodeLen(xfers[j].req.payload)
    /\ CallsSerialized => \A i \in 1..Len(xfers) : IsGet(xfers[i]) => OwnWindow(xfers[i])

\* interleaved calls: a Get of one caller returned, in full, the window the
\* other caller's Set staged at another address, and that caller's
\* snx_sf_read returned 0
C17_Witness ==
    \E i \in 1..Len(xfers) :
        LET g == xfers[i]
        IN /\ IsGet(g)
           /\ g.src.by # g.by
           /\ g.src.addr # g.addr
           /\ g.src.len = g.req.wLength
           /\ g.ret = g.req.wLength
           /\ ReadDone(g.by) /\ rd[g.by].ret = 0

(* ------------------------------------------------------------------ *)
(* C18                                                                 *)
(* ------------------------------------------------------------------ *)
\* how many times fn was called on object id
CallsOn(fn, id) == Cardinality({ i \in DOMAIN libcalls : libcalls[i].fn = fn /\ libcalls[i].arg = id })

\* the objects successful calls of fn created
Created(fn) == { libcalls[i].arg : i \in { k \in DOMAIN libcalls : libcalls[k].fn = fn /\ libcalls[k].ok } }

\* C18: over any sequence of snx_open and snx_close calls, every context
\* libusb_init gave out is torn down by libusb_exit exactly once and every
\* handle is closed exactly once: none is released twice or used after its
\* release, and none is left live with the session no longer holding it.
C18_ReleasedOnce ==
    /\ \A c \in Created("libusb_init") :
         /\ CallsOn("libusb_exit", c) <= 1
         /\ c \in usb.ctxs <=> CallsOn("libusb_exit", c) = 0
         /\ c \in usb.ctxs => dev.ctx = c
    /\ \A h \in Created("libusb_open_device_with_vid_pid") :
         /\ CallsOn("libusb_close", h) <= 1
         /\ h \in usb.handles <=> CallsOn("libusb_close", h) = 0
         /\ h \in usb.handles => dev.handle = h
    /\ \A i \in DOMAIN libcalls :
         libcalls[i].fn \in {"libusb_exit", "libusb_close"} => libcalls[i].ok

(* ------------------------------------------------------------------ *)
(* SpecFair: Spec with every control transfer returning                *)
(* ------------------------------------------------------------------ *)
\* libusb_control_transfer is synchronous with a 3000 ms timeout: a transfer
\* that was issued returns, and the code after it runs
SpecFair == Spec /\ WF_vars(Next)

(* ------------------------------------------------------------------ *)
(* C19                                                                 *)
(* ------------------------------------------------------------------ *)
ReadRunning(c) == rd[c].pc \in {"loop", "get"}

\* C19: snx_sf_read terminates when every control transfer returns: each
\* completed iteration takes a chunk of 1..1023 bytes off remaining, so there
\* are at most ceil(length/1023) iterations; with length 0 it returns 0
\* without any transfer.
C19_Terminates ==
    /\ ReadRunning(1) ~> ReadDone(1)
    /\ [][(rd[1].pc = "get" /\ rd'[1].pc = "loop") =>
            /\ rd[1].chunk >= 1 /\ rd[1].chunk <= ChunkMax
            /\ rd'[1].remaining = rd[1].remaining - rd[1].chunk
            /\ rd'[1].remaining < rd[1].remaining
            /\ rd'[1].remaining >= 0]_vars
    /\ [](Len(SetsOf(1)) <= CeilDiv(rd[1].length, ChunkMax))
    /\ []((ReadDone(1) /\ rd[1].length = 0) => (xfers = <<>> /\ rd[1].ret = 0))

\* a read of more than two chunks has returned after ceil(length/1023) iterations
C19_Witness ==
    /\ ReadDone(1) /\ rd[1].ret = 0
    /\ rd[1].length > 2 * ChunkMax
    /\ Len(SetsOf(1)) = CeilDiv(rd[1].length, ChunkMax)
    /\ rd[1].remaining = 0

(* ------------------------------------------------------------------ *)
(* C20                                                                 *)
(* ------------------------------------------------------------------ *)
\* snx_open returned 0: it got a device handle
OpenSucceeded ==
    \E i \in DOMAIN libcalls :
        libcalls[i].fn = "libusb_open_device_with_vid_pid" /\ libcalls[i].ok

\* the calls of snx_close main has made
CloseCalls == Cardinality({ i \in DOMAIN client.ops : client.ops[i] = "close" })

MainExited == mainf.pc = "exit"

\* C20: in every run of main in which snx_open succeeds, snx_close is called
\* exactly once before the exit, whatever the command and its result, and
\* the exit status is 0; the exit status is 1 only for a wrong argument
\* count or a failed open.
C20_CloseOnceExitZero ==
    /\ CloseCalls <= 1
    /\ CloseCalls = 1 => OpenSucceeded
    /\ MainExited =>
         /\ mainf.status \in {0, 1}
         /\ OpenSucceeded =>
               /\ CloseCalls = 1
               /\ mainf.status = 0
               /\ client.ops[Len(client.ops)] = "close"
               /\ usb.handles = {} /\ usb.ctxs = {}
               /\ dev = ZeroDev
         /\ mainf.status = 1 <=> (mainf.argc # 2 \/ ~OpenSucceeded)

\* main has exited with status 0 after a dump that failed and one snx_close
C20_Witness ==
    /\ MainExited /\ mainf.status = 0
    /\ mainf.arg = "dump" /\ dmp.r # 0
    /\ client.ops = <<"open", "dump", "close">>

====
